---- MODULE Spec2Model ----
(***************************************************************************)
(* The free-look camera controller of samples/05-Models                   *)
(* (CameraController.cpp): the smoothing filter Smooth, the constructor,  *)
(* ResetView and the per-frame Update.                                     *)
(*                                                                         *)
(* Numbers.  The controller computes in float.  Lengths and angles are     *)
(* modelled as exact rationals: an integer n stands for n / Unit, and      *)
(* Unit is chosen so that every product and quotient Update forms within   *)
(* the bounds is a whole number of units (the invariant ArithmeticExact    *)
(* checks it).  Scale factors (0.1, 0.5, 0.6^k, 0.8^k, deltaTime) are      *)
(* pairs <<numerator, denominator>>.  The rounding of binary32 is          *)
(* modelled separately, for the filter alone, by LerpF32 and SmoothF32.    *)
(***************************************************************************)
EXTENDS Integers, Sequences, FiniteSets, TLC

\* ------------------------------------------------------------- bounds
\* The Update calls of a run.
MaxUpdates == 2
\* The largest deltaTime of one Update, in ticks of 1/60 s.
MaxTicks == 2
\* The sum of the deltaTimes of a run, in ticks: it bounds the denominators.
MaxElapsed == 3

\* ---------------------------------------------------------- arithmetic
Abs(x) == IF x < 0 THEN -x ELSE x

RECURSIVE Power(_, _)
Power(b, n) == IF n = 0 THEN 1 ELSE b * Power(b, n - 1)

\* One unit of length or angle is 1 / Unit.
Unit == 60 * Power(5, MaxElapsed)

\* x (in units) times the rational q.
Mul(x, q) == (x * q[1]) \div q[2]
MulExact(x, q) == (x * q[1]) % q[2] = 0

\* std::powf( base, exponent ) for a whole exponent.
powf(base, exponent) == <<Power(base[1], exponent), Power(base[2], exponent)>>

\* deltaTime * 60.0, for a deltaTime of a whole number of ticks.
Ticks(deltaTime) == (deltaTime[1] * 60) \div deltaTime[2]

\* A faulty Lerp, with its end points exchanged.
LerpSwapped(x0, x1, a) == x1 + Mul(x0 - x1, a)

\* Lerp( x0, x1, a ): x0 + a * ( x1 - x0 ).
Lerp(x0, x1, a) == x0 + Mul(x1 - x0, a)
LerpExact(x0, x1, a) == MulExact(x1 - x0, a)

\* A faulty Smooth, with the two blend factors exchanged.
SmoothValueBranchesSwapped(x0, x1, deltaTime) ==
    IF Abs(x0) < Abs(x1)
    THEN Lerp(x1, x0, powf(<<8, 10>>, Ticks(deltaTime)))
    ELSE Lerp(x1, x0, powf(<<6, 10>>, Ticks(deltaTime)))

\* The local x of Smooth: the blend of the prior value x0 and the target x1,
\* by 0.6^(deltaTime*60) speeding up and by 0.8^(deltaTime*60) slowing down.
SmoothValue(x0, x1, deltaTime) ==
    IF Abs(x0) < Abs(x1)
    THEN Lerp(x1, x0, powf(<<6, 10>>, Ticks(deltaTime)))
    ELSE Lerp(x1, x0, powf(<<8, 10>>, Ticks(deltaTime)))

\* A faulty Smooth, which leaves its second reference as it was.
SmoothKeepsTarget(x0, x1, deltaTime) == <<SmoothValue(x0, x1, deltaTime), x1>>

\* Smooth( x0, x1, deltaTime ): the values of the two references <<x0, x1>>
\* when it returns.
Smooth(x0, x1, deltaTime) ==
    LET x == SmoothValue(x0, x1, deltaTime)
    IN  <<x, x>>
SmoothExact(x0, x1, deltaTime) ==
    IF Abs(x0) < Abs(x1)
    THEN LerpExact(x1, x0, powf(<<6, 10>>, Ticks(deltaTime)))
    ELSE LerpExact(x1, x0, powf(<<8, 10>>, Ticks(deltaTime)))

\* A faulty clamp, which lets every value through.
ClampNone(v, lo, hi) == v

\* std::clamp( v, lo, hi ).
clamp(v, lo, hi) == IF v < lo THEN lo ELSE IF hi < v THEN hi ELSE v

\* ------------------------------------------------------------ binary32
\* The filter as the build computes it, in float (IEEE binary32, round to
\* nearest, ties to even).  A value is a whole number n of quanta Q, Q a power
\* of two.  The sum and the difference of two values are rounded to
\* F32_MANT_DIG significant bits; a result below 2^F32_MANT_DIG quanta is a
\* whole number of quanta, which is binary32's own rounding when Q is its
\* least subnormal, 2^-149.  Sums and differences of whole numbers are whole,
\* so what holds of them holds for every Q.
F32_MANT_DIG == 24

RECURSIVE BitLength(_)
BitLength(n) == IF n = 0 THEN 0 ELSE 1 + BitLength(n \div 2)

\* n rounded to F32_MANT_DIG significant bits.
RoundF32(n) ==
    LET m == Abs(n)
        g == IF BitLength(m) <= F32_MANT_DIG
             THEN 1 ELSE Power(2, BitLength(m) - F32_MANT_DIG)
        q == m \div g
        r == m % g
        up == 2 * r > g \/ (2 * r = g /\ q % 2 = 1)
        v == (IF up THEN q + 1 ELSE q) * g
    IN  IF n < 0 THEN -v ELSE v

AddF32(x, y) == RoundF32(x + y)
SubF32(x, y) == RoundF32(x - y)

\* The float factors, in units of 2^-F32_MANT_DIG: 1.0f, (float)0.6, (float)0.8.
F32_1_0 == Power(2, F32_MANT_DIG)
F32_0_6 == 10066330
F32_0_8 == 13421773

\* a * d for a factor a <= 1.0f: the exact product, formed in halves of 12
\* bits, is hi + lo / 2^24 quanta, and is rounded once.
MulF32(a, d) ==
    LET m == Abs(d)
        L == Power(2, 12)
        a1 == a \div L
        a0 == a % L
        d1 == m \div L
        d0 == m % L
        cross == a1 * d0 + a0 * d1
        low == (cross % L) * L + a0 * d0
        hi == a1 * d1 + cross \div L + low \div (L * L)
        lo == low % (L * L)
        g == IF BitLength(hi) <= F32_MANT_DIG
             THEN 1 ELSE Power(2, BitLength(hi) - F32_MANT_DIG)
        q == hi \div g
        rest == 2 * ((hi % g) * L * L + lo)
        up == rest > g * L * L \/ (rest = g * L * L /\ q % 2 = 1)
        v == (IF up THEN q + 1 ELSE q) * g
    IN  IF d < 0 THEN -v ELSE v

\* std::powf( base, exponent ) for the exponents 0 and 1, where it is exact.
powfF32(base, exponent) == IF exponent = 0 THEN F32_1_0 ELSE base

\* Lerp and Smooth in float.
LerpF32(x0, x1, a) == AddF32(x0, MulF32(a, SubF32(x1, x0)))
SmoothValueF32(x0, x1, exponent) ==
    IF Abs(x0) < Abs(x1)
    THEN LerpF32(x1, x0, powfF32(F32_0_6, exponent))
    ELSE LerpF32(x1, x0, powfF32(F32_0_8, exponent))
SmoothF32(x0, x1, exponent) ==
    LET x == SmoothValueF32(x0, x1, exponent)
    IN  <<x, x>>

\* -------------------------------------------------------------- camera
\* XMConvertToRadians: degrees (in units) to radians, as the multiple
\* <<n, d>> of pi, n/d * pi.
XMConvertToRadians(degrees) == <<degrees, 180 * Unit>>

RECURSIVE GCD(_, _)
GCD(a, b) == IF b = 0 THEN a ELSE GCD(b, a % b)

\* An angle reduced to [0, 4 pi), in lowest terms: a unit quaternion is built
\* from the sines and cosines of the half angles.
HalfTurns(rad) ==
    LET n == rad[1] % (4 * rad[2])
        g == GCD(n, rad[2])
    IN  <<n \div g, rad[2] \div g>>

\* XMQuaternionRotationRollPitchYaw( pitch, yaw, roll ), named by its three
\* angles reduced to [0, 4 pi).
XMQuaternionRotationRollPitchYaw(pitch, yaw, roll) ==
    [pitch |-> HalfTurns(pitch), yaw |-> HalfTurns(yaw), roll |-> HalfTurns(roll)]

\* Camera::set_Rotation, Camera::set_Translation, Camera::Translate.  The
\* absolute translation is the point last set and the local-space moves
\* made since, each with the rotation the camera had when it was made.
set_Rotation(camera, rotation) == [camera EXCEPT !.rotation = rotation]
set_Translation(camera, point) ==
    [camera EXCEPT !.translation = [point |-> point, moves |-> <<>>]]
Translate(camera, v) ==
    IF v = <<0, 0, 0>>
    THEN camera
    ELSE [camera EXCEPT !.translation.moves =
              Append(@, [rotation |-> camera.rotation, by |-> v])]

\* ---------------------------------------------------------- controller
MOVE_SPEED == 10
LOOK_SENSITIVITY == 180
MOUSE_SENSITIVITY == <<1, 10>>

\* The view ResetView sets: yaw in degrees, and the camera's position in
\* quarters of a unit of length, { 0, 1.5, 0.25 }.
ResetYaw == 90
ResetPoint == <<0, (6 * Unit) \div 4, Unit \div 4>>

VARIABLES m_X, m_Y, m_Z, m_Pitch, m_Yaw, m_PreviousPitch, m_PreviousYaw,
          m_InverseY, m_Camera, last, updates, elapsed, fx

vars == <<m_X, m_Y, m_Z, m_Pitch, m_Yaw, m_PreviousPitch, m_PreviousYaw,
          m_InverseY, m_Camera, last, updates, elapsed, fx>>

\* The controller's fields, as one record.
Self ==
    [m_X |-> m_X, m_Y |-> m_Y, m_Z |-> m_Z, m_Pitch |-> m_Pitch, m_Yaw |-> m_Yaw,
     m_PreviousPitch |-> m_PreviousPitch, m_PreviousYaw |-> m_PreviousYaw,
     m_InverseY |-> m_InverseY, m_Camera |-> m_Camera]

\* The member initialisers of the constructor, before its call of ResetView.
Constructed(camera) ==
    [m_X |-> 0, m_Y |-> Unit, m_Z |-> 0, m_Pitch |-> 0, m_Yaw |-> 0,
     m_PreviousPitch |-> 0, m_PreviousYaw |-> 0, m_InverseY |-> TRUE,
     m_Camera |-> camera]

\* A faulty ResetView, which forgets m_PreviousYaw.
ResetViewKeepsYawDelta(c) ==
    LET rotation == XMQuaternionRotationRollPitchYaw(
                        XMConvertToRadians(0), XMConvertToRadians(ResetYaw * Unit),
                        <<0, 1>>)
    IN  [c EXCEPT !.m_X = 0, !.m_Y = 0, !.m_Z = 0, !.m_PreviousPitch = 0,
                  !.m_Pitch = 0, !.m_Yaw = ResetYaw * Unit,
                  !.m_Camera = set_Translation(set_Rotation(@, rotation), ResetPoint)]

\* CameraController::ResetView: the fields when it returns.
ResetViewResult(c) ==
    LET pitch == 0
        yaw == ResetYaw * Unit
        rotation == XMQuaternionRotationRollPitchYaw(
                        XMConvertToRadians(pitch), XMConvertToRadians(yaw), <<0, 1>>)
    IN  [c EXCEPT !.m_X = 0, !.m_Y = 0, !.m_Z = 0,
                  !.m_PreviousPitch = 0, !.m_PreviousYaw = 0,
                  !.m_Pitch = pitch, !.m_Yaw = yaw,
                  !.m_Camera = set_Translation(set_Rotation(@, rotation), ResetPoint)]

\* ---------------------------------------------------------- one frame
\* What the two input maps report in one frame.
KM(MoveX_, MoveY_, MoveZ_, Pitch_, Yaw_, PitchDelta_, YawDelta_, Boost_, LMB_) ==
    [MoveX |-> MoveX_, MoveY |-> MoveY_, MoveZ |-> MoveZ_, Pitch |-> Pitch_,
     Yaw |-> Yaw_, PitchDelta |-> PitchDelta_, YawDelta |-> YawDelta_,
     Boost |-> Boost_, LMB |-> LMB_]
Pad(MoveX_, MoveY_, MoveZ_, Pitch_, Yaw_, Boost_) ==
    [MoveX |-> MoveX_, MoveY |-> MoveY_, MoveZ |-> MoveZ_, Pitch |-> Pitch_,
     Yaw |-> Yaw_, Boost |-> Boost_]

KMIdle == KM(0, 0, 0, 0, 0, 0, 0, FALSE, FALSE)
PadIdle == Pad(0, 0, 0, 0, 0, FALSE)

\* The frames of a run.  Axes are whole, -1, 0 or 1; the mouse deltas are
\* large enough to carry the pitch past 90 degrees in one frame.
Frames ==
    { [km |-> KMIdle, pad |-> PadIdle],
      \* W
      [km |-> KM(0, 0, 1, 0, 0, 0, 0, FALSE, FALSE), pad |-> PadIdle],
      \* W and shift
      [km |-> KM(0, 0, 1, 0, 0, 0, 0, TRUE, FALSE), pad |-> PadIdle],
      \* D, E; left stick right, left trigger, L3
      [km |-> KM(1, 1, 0, 0, 0, 0, 0, FALSE, FALSE),
       pad |-> Pad(1, -1, 0, 0, 0, TRUE)],
      \* S, Q; left stick forward
      [km |-> KM(0, -1, -1, 0, 0, 0, 0, FALSE, FALSE),
       pad |-> Pad(0, 0, 1, 0, 0, FALSE)],
      \* right stick
      [km |-> KMIdle, pad |-> Pad(0, 0, 0, 1, -1, FALSE)],
      \* arrow keys and mouse motion, button up; right stick, R3
      [km |-> KM(0, 0, 0, 1, -1, 1200, 600, FALSE, FALSE),
       pad |-> Pad(0, 0, 0, -1, 1, TRUE)],
      \* arrow keys and mouse motion, button up
      [km |-> KM(0, 0, 0, -1, 1, -600, 20, FALSE, FALSE),
       pad |-> Pad(0, 0, 0, 1, 0, FALSE)],
      \* mouse drag
      [km |-> KM(0, 0, 0, 0, 0, 600, -600, FALSE, TRUE), pad |-> PadIdle],
      \* W, mouse drag with shift; right stick
      [km |-> KM(0, 0, 1, 0, 0, -1200, 20, TRUE, TRUE),
       pad |-> Pad(0, 0, 0, 1, 0, FALSE)],
      \* mouse drag; L3
      [km |-> KM(0, 0, 0, 0, 0, 1200, 0, FALSE, TRUE),
       pad |-> Pad(0, 0, 0, 0, 0, TRUE)],
      \* everything at once, boosted on both
      [km |-> KM(-1, 0, 1, 1, 1, 20, -20, TRUE, TRUE),
       pad |-> Pad(0, 1, 0, 1, 1, TRUE)],
      \* everything at once, not boosted
      [km |-> KM(-1, 0, 1, 1, 1, 20, -20, FALSE, TRUE),
       pad |-> Pad(0, 1, 0, 1, 1, FALSE)] }

\* UpdateEventArgs and the input of the frame: DeltaTime is ticks / 60 s.
Event(frame, ticks) ==
    [DeltaTime |-> <<ticks, 60>>, km |-> frame.km, pad |-> frame.pad]

NoEvent == Event([km |-> KMIdle, pad |-> PadIdle], 0)

\* A faulty speedScale, which asks the pad alone.
SpeedScalePadOnly(e) == IF e.pad.Boost THEN <<1, 1>> ELSE <<1, 10>>

\* speedScale and rotationScale: 1.0 with Boost on either map, else 0.1, 0.5.
SpeedScale(e) == IF e.pad.Boost \/ e.km.Boost THEN <<1, 1>> ELSE <<1, 10>>
RotationScale(e) == IF e.pad.Boost \/ e.km.Boost THEN <<1, 1>> ELSE <<1, 2>>

\* A faulty pitch, which adds the keyboard/mouse axis as X, Y and Z do.
PitchAxisBoth(e) == e.pad.Pitch + e.km.Pitch

\* The axis values the raw pitch and yaw are computed from: the pad's alone.
PitchAxis(e) == e.pad.Pitch
YawAxis(e) == e.pad.Yaw

\* The raw deltas, before smoothing.
RawMove(axes, e) == Mul(Mul(axes * MOVE_SPEED * Unit, SpeedScale(e)), e.DeltaTime)
RawLook(axis, e) ==
    Mul(Mul(axis * LOOK_SENSITIVITY * Unit, RotationScale(e)), e.DeltaTime)

\* The mouse motion subtracted from pitch and yaw while LMB is held.
MouseLook(delta, e) == Mul(Mul(delta * Unit, MOUSE_SENSITIVITY), RotationScale(e))

\* A faulty sign, which ignores m_InverseY.
PitchSignFixed(c) == 1

\* The sign of the pitch: m_InverseY ? 1.0 : -1.0.
PitchSign(c) == IF c.m_InverseY THEN 1 ELSE -1

\* A faulty rotation, with pitch and yaw exchanged.
RotationSwapped(pitch, yaw) ==
    XMQuaternionRotationRollPitchYaw(
        XMConvertToRadians(yaw), XMConvertToRadians(pitch), <<0, 1>>)

\* The rotation Update gives the camera.
RotationOf(pitch, yaw) ==
    XMQuaternionRotationRollPitchYaw(
        XMConvertToRadians(pitch), XMConvertToRadians(yaw), <<0, 1>>)

\* CameraController::Update: its locals and the fields when it returns.
UpdateResult(c, e) ==
    LET rawX == RawMove(e.km.MoveX + e.pad.MoveX, e)
        rawY == RawMove(e.km.MoveY + e.pad.MoveY, e)
        rawZ == RawMove(e.km.MoveZ + e.pad.MoveZ, e)
        rawPitch == RawLook(PitchAxis(e), e)
        rawYaw == RawLook(YawAxis(e), e)
        sX == Smooth(c.m_X, rawX, e.DeltaTime)
        sY == Smooth(c.m_Y, rawY, e.DeltaTime)
        sZ == Smooth(c.m_Z, rawZ, e.DeltaTime)
        sPitch == Smooth(c.m_PreviousPitch, rawPitch, e.DeltaTime)
        sYaw == Smooth(c.m_PreviousYaw, rawYaw, e.DeltaTime)
        mousePitch == IF e.km.LMB THEN MouseLook(e.km.PitchDelta, e) ELSE 0
        mouseYaw == IF e.km.LMB THEN MouseLook(e.km.YawDelta, e) ELSE 0
        pitch == sPitch[2] - mousePitch
        yaw == sYaw[2] - mouseYaw
        pitchStep == pitch * PitchSign(c)
        unclamped == c.m_Pitch + pitchStep
        newPitch == clamp(unclamped, -90 * Unit, 90 * Unit)
        newYaw == c.m_Yaw + yaw
        translation == <<sX[2], sY[2], sZ[2]>>
        rotation == RotationOf(newPitch, newYaw)
    IN  [speedScale |-> SpeedScale(e), rotationScale |-> RotationScale(e),
         rawX |-> rawX, rawY |-> rawY, rawZ |-> rawZ,
         rawPitch |-> rawPitch, rawYaw |-> rawYaw,
         mousePitch |-> mousePitch, mouseYaw |-> mouseYaw,
         pitch |-> pitch, yaw |-> yaw,
         pitchStep |-> pitchStep, unclamped |-> unclamped,
         translation |-> translation, rotation |-> rotation,
         self |-> [c EXCEPT !.m_X = sX[1], !.m_Y = sY[1], !.m_Z = sZ[1],
                            !.m_PreviousPitch = sPitch[1],
                            !.m_PreviousYaw = sYaw[1],
                            !.m_Pitch = newPitch, !.m_Yaw = newYaw,
                            !.m_Camera =
                                set_Rotation(Translate(@, translation), rotation)]]

\* Whether every product Update forms is a whole number of units.
UpdateExact(c, e) ==
    LET r == UpdateResult(c, e)
        MoveExact(axes) ==
            /\ MulExact(axes * MOVE_SPEED * Unit, SpeedScale(e))
            /\ MulExact(Mul(axes * MOVE_SPEED * Unit, SpeedScale(e)), e.DeltaTime)
        LookExact(axis) ==
            /\ MulExact(axis * LOOK_SENSITIVITY * Unit, RotationScale(e))
            /\ MulExact(Mul(axis * LOOK_SENSITIVITY * Unit, RotationScale(e)),
                        e.DeltaTime)
        MouseExact(delta) ==
            /\ MulExact(delta * Unit, MOUSE_SENSITIVITY)
            /\ MulExact(Mul(delta * Unit, MOUSE_SENSITIVITY), RotationScale(e))
    IN  /\ MoveExact(e.km.MoveX + e.pad.MoveX)
        /\ MoveExact(e.km.MoveY + e.pad.MoveY)
        /\ MoveExact(e.km.MoveZ + e.pad.MoveZ)
        /\ LookExact(PitchAxis(e)) /\ LookExact(YawAxis(e))
        /\ MouseExact(e.km.PitchDelta) /\ MouseExact(e.km.YawDelta)
        /\ SmoothExact(c.m_X, r.rawX, e.DeltaTime)
        /\ SmoothExact(c.m_Y, r.rawY, e.DeltaTime)
        /\ SmoothExact(c.m_Z, r.rawZ, e.DeltaTime)
        /\ SmoothExact(c.m_PreviousPitch, r.rawPitch, e.DeltaTime)
        /\ SmoothExact(c.m_PreviousYaw, r.rawYaw, e.DeltaTime)
        /\ (6 * Unit) % 4 = 0 /\ Unit % 4 = 0

\* ------------------------------------------------------------ the machine
NoResult ==
    UpdateResult(ResetViewResult(Constructed([rotation |-> 0, translation |-> 0])),
                 NoEvent)

\* The cameras a controller may be constructed on.
DefaultCamera ==
    [rotation |-> XMQuaternionRotationRollPitchYaw(<<0, 1>>, <<0, 1>>, <<0, 1>>),
     translation |-> [point |-> <<0, 0, 0>>, moves |-> <<>>]]
TurnedCamera ==
    [rotation |-> XMQuaternionRotationRollPitchYaw(<<1, 4>>, <<1, 2>>, <<0, 1>>),
     translation |-> [point |-> <<Unit, 0, -Unit>>, moves |-> <<>>]]
Cameras == {DefaultCamera, TurnedCamera}

Assign(c) ==
    /\ m_X' = c.m_X /\ m_Y' = c.m_Y /\ m_Z' = c.m_Z
    /\ m_Pitch' = c.m_Pitch /\ m_Yaw' = c.m_Yaw
    /\ m_PreviousPitch' = c.m_PreviousPitch /\ m_PreviousYaw' = c.m_PreviousYaw
    /\ m_InverseY' = c.m_InverseY /\ m_Camera' = c.m_Camera

\* A call of Smooth in float: the references x0 and x1 and the exponent
\* deltaTime * 60.0 going in, and the references coming out.
FxIdle == [pc |-> "off", x0 |-> 0, x1 |-> 0, exponent |-> 0, r0 |-> 0, r1 |-> 0]

\* The state when the constructor returns.
Constructor(camera) ==
    LET c == ResetViewResult(Constructed(camera))
    IN  /\ m_X = c.m_X /\ m_Y = c.m_Y /\ m_Z = c.m_Z
        /\ m_Pitch = c.m_Pitch /\ m_Yaw = c.m_Yaw
        /\ m_PreviousPitch = c.m_PreviousPitch
        /\ m_PreviousYaw = c.m_PreviousYaw
        /\ m_InverseY = c.m_InverseY /\ m_Camera = c.m_Camera
        /\ last = [op |-> "CameraController", pre |-> Constructed(camera),
                   e |-> NoEvent, r |-> NoResult, earlier |-> NoEvent]
        /\ updates = 0 /\ elapsed = 0

Init == (\E camera \in Cameras : Constructor(camera)) /\ fx = FxIdle

ResetView ==
    /\ last' = [op |-> "ResetView", pre |-> Self, e |-> NoEvent, r |-> NoResult,
                earlier |-> last.e]
    /\ Assign(ResetViewResult(Self))
    /\ UNCHANGED <<updates, elapsed, fx>>

Update ==
    \E frame \in Frames, ticks \in 0..MaxTicks :
        /\ updates < MaxUpdates
        /\ elapsed + ticks <= MaxElapsed
        /\ LET e == Event(frame, ticks)
               r == UpdateResult(Self, e)
           IN  last' = [op |-> "Update", pre |-> Self, e |-> e, r |-> r,
                        earlier |-> last.e]
        /\ Assign(last'.r.self)
        /\ updates' = updates + 1
        /\ elapsed' = elapsed + ticks
        /\ UNCHANGED fx

Next == ResetView \/ Update

Spec == Init /\ [][Next]_vars

\* ------------------------------------------------ the filter, in float
\* The values Smooth is called with: whole numbers of quanta of at most
\* F32_MANT_DIG significant bits.  11063509 and -10273150 are 5.2754922f and
\* -4.8986197f in quanta of 2^-21.
F32Values ==
    {0, 3, 4, -4, 16777215, -16777215, 16777216, 11063509, -10273150, -12582912}

\* deltaTime * 60.0, as powf receives it: 0 for a deltaTime of 0, 1 for 1/60.
F32Exponents == {0, 1}

InitF32 ==
    /\ Constructor(DefaultCamera)
    /\ \E x0 \in F32Values, x1 \in F32Values, exponent \in F32Exponents :
           fx = [pc |-> "call", x0 |-> x0, x1 |-> x1, exponent |-> exponent,
                 r0 |-> 0, r1 |-> 0]

SmoothCall ==
    /\ fx.pc = "call"
    /\ LET s == SmoothF32(fx.x0, fx.x1, fx.exponent)
       IN  fx' = [fx EXCEPT !.pc = "done", !.r0 = s[1], !.r1 = s[2]]
    /\ UNCHANGED <<m_X, m_Y, m_Z, m_Pitch, m_Yaw, m_PreviousPitch, m_PreviousYaw,
                   m_InverseY, m_Camera, last, updates, elapsed>>

NextF32 == SmoothCall

SpecF32 == InitF32 /\ [][NextF32]_vars

\* Every product of the last Update was a whole number of units.
ArithmeticExact == last.op = "Update" => UpdateExact(last.pre, last.e)

\* ------------------------------------------------------------- claims
\* The values the claims let the keyboard/mouse axes and deltas range over.
AxisValues == {-1, 1}
DeltaValues == {-1200, 20}

Updated == last.op = "Update"
Boosted(e) == e.pad.Boost \/ e.km.Boost
WithBoost(e, km, pad) == [e EXCEPT !.km.Boost = km, !.pad.Boost = pad]
WithInverseY(c, flag) == [c EXCEPT !.m_InverseY = flag]
WithMouse(e, lmb, dPitch, dYaw) ==
    [e EXCEPT !.km.LMB = lmb, !.km.PitchDelta = dPitch, !.km.YawDelta = dYaw]
WithKMLook(e, pitch, yaw, dPitch, dYaw) ==
    [e EXCEPT !.km.Pitch = pitch, !.km.Yaw = yaw,
              !.km.PitchDelta = dPitch, !.km.YawDelta = dYaw]
Accumulators(c) == <<c.m_X, c.m_Y, c.m_Z, c.m_PreviousPitch, c.m_PreviousYaw>>

\* C1: after construction and after every ResetView and Update, the pitch is
\* within [-90, 90] degrees.
C1_PitchInRange == -90 * Unit <= m_Pitch /\ m_Pitch <= 90 * Unit

\* An Update whose pitch would have passed 90 degrees, and was clamped to it.
C1_Witness == Updated /\ last.r.unclamped > 90 * Unit /\ m_Pitch = 90 * Unit

F32ZeroTargetKeepsPrior ==
    (fx.pc = "done" /\ fx.exponent = 0 /\ fx.x1 = 0) => fx.r0 = fx.x0

\* C3: after construction and after ResetView from any state, the five
\* accumulators are 0, pitch is 0, yaw is 90, the camera's rotation is the
\* quaternion of (0, 90, 0) degrees and its translation is (0, 1.5, 0.25);
\* a second ResetView changes nothing.
C3_ResetViewState ==
    last.op \in {"CameraController", "ResetView"} =>
        /\ Accumulators(Self) = <<0, 0, 0, 0, 0>>
        /\ m_Pitch = 0
        /\ m_Yaw = 90 * Unit
        /\ m_Camera.rotation = [pitch |-> <<0, 1>>, yaw |-> <<1, 2>>, roll |-> <<0, 1>>]
        /\ m_Camera.translation.moves = <<>>
        /\ LET point == m_Camera.translation.point
           IN  point[1] = 0 /\ 2 * point[2] = 3 * Unit /\ 4 * point[3] = Unit
        /\ ResetViewResult(Self) = Self

\* A ResetView from a state where every accumulator, the pitch, the yaw and
\* the camera had moved.
C3_Witness ==
    /\ last.op = "ResetView"
    /\ \A i \in 1..5 : Accumulators(last.pre)[i] # 0
    /\ last.pre.m_Pitch # 0 /\ last.pre.m_Yaw # 90 * Unit
    /\ last.pre.m_Camera.translation.moves # <<>>
    /\ last.pre.m_Camera.rotation # m_Camera.rotation

\* C4: with Boost held on either input map the translation and rotation
\* scales are 1.0 and 1.0, else 0.1 and 0.5; for the same axes, deltas and
\* deltaTime the raw translation deltas with Boost are those without it
\* times 1.0/0.1, and the raw pad pitch and yaw deltas and the mouse-look
\* contributions are those without it times 1.0/0.5.
C4_BoostScales ==
    Updated =>
        LET e == last.e
            off == UpdateResult(last.pre, WithBoost(e, FALSE, FALSE))
            ticks == e.DeltaTime[1]
        IN  /\ last.r.speedScale = IF Boosted(e) THEN <<1, 1>> ELSE <<1, 10>>
            /\ last.r.rotationScale = IF Boosted(e) THEN <<1, 1>> ELSE <<1, 2>>
            /\ off.speedScale = <<1, 10>> /\ off.rotationScale = <<1, 2>>
            /\ 600 * off.rawX = (e.km.MoveX + e.pad.MoveX) * 10 * ticks * Unit
            /\ 600 * off.rawY = (e.km.MoveY + e.pad.MoveY) * 10 * ticks * Unit
            /\ 600 * off.rawZ = (e.km.MoveZ + e.pad.MoveZ) * 10 * ticks * Unit
            /\ 120 * off.rawPitch = e.pad.Pitch * 180 * ticks * Unit
            /\ 120 * off.rawYaw = e.pad.Yaw * 180 * ticks * Unit
            /\ \A km, pad \in BOOLEAN :
                   LET on == UpdateResult(last.pre, WithBoost(e, km, pad))
                       move == IF km \/ pad THEN 10 ELSE 1
                       look == IF km \/ pad THEN 2 ELSE 1
                   IN  /\ on.rawX = move * off.rawX
                       /\ on.rawY = move * off.rawY
                       /\ on.rawZ = move * off.rawZ
                       /\ on.rawPitch = look * off.rawPitch
                       /\ on.rawYaw = look * off.rawYaw
                       /\ on.mousePitch = look * off.mousePitch
                       /\ on.mouseYaw = look * off.mouseYaw
                       /\ (km = e.km.Boost /\ pad = e.pad.Boost) => on = last.r

\* An Update with Boost held on the keyboard alone, in which translation,
\* pad look and mouse look are all non-zero.
C4_Witness ==
    /\ Updated /\ last.e.km.Boost /\ ~last.e.pad.Boost
    /\ last.r.rawZ # 0 /\ last.r.rawPitch # 0 /\ last.r.mousePitch # 0

\* C5: two controllers in the same state but for the axis-inversion flag,
\* given the same Update: the amounts added to the pitch before clamping are
\* +delta with the flag set and -delta with it clear; the yaw, the five
\* accumulators and the translation applied to the camera are the same.
C5_InverseY ==
    Updated =>
        LET set == UpdateResult(WithInverseY(last.pre, TRUE), last.e)
            clear == UpdateResult(WithInverseY(last.pre, FALSE), last.e)
        IN  /\ set.pitch = clear.pitch
            /\ set.pitchStep = set.pitch /\ clear.pitchStep = -set.pitch
            /\ set.unclamped = last.pre.m_Pitch + set.pitch
            /\ clear.unclamped = last.pre.m_Pitch - set.pitch
            /\ set.self.m_Yaw = clear.self.m_Yaw
            /\ Accumulators(set.self) = Accumulators(clear.self)
            /\ set.translation = clear.translation
            /\ last.r = IF last.pre.m_InverseY THEN set ELSE clear

\* An Update that added a non-zero amount to a non-zero pitch and moved the
\* camera.
C5_Witness ==
    /\ Updated /\ last.r.pitchStep # 0 /\ last.pre.m_Pitch # 0
    /\ last.r.yaw # 0 /\ last.r.translation # <<0, 0, 0>>
    /\ last.r.unclamped = m_Pitch

\* The scenario of C6: right after ResetView, one Update with deltaTime 1/60,
\* keyboard MoveZ 1.0, everything else 0, Boost and LMB not held.
C6_Scenario ==
    /\ Updated
    /\ Accumulators(last.pre) = <<0, 0, 0, 0, 0>>
    /\ last.pre.m_Pitch = 0 /\ last.pre.m_Yaw = 90 * Unit
    /\ last.e = Event([km |-> KM(0, 0, 1, 0, 0, 0, 0, FALSE, FALSE), pad |-> PadIdle], 1)

\* C6 as claimed: in the scenario the Z translation applied to the camera is
\* 10 * 0.1 * (1/60) * a with a = 0.6, the X and Y translations are 0 and the
\* pitch and yaw are unchanged.
C6_AsClaimed ==
    C6_Scenario =>
        /\ 10 * 60 * 10 * last.r.translation[3] = 10 * 1 * 1 * 6 * Unit
        /\ last.r.translation[1] = 0 /\ last.r.translation[2] = 0
        /\ m_Pitch = 0 /\ m_Yaw = 90 * Unit

\* C6 amended: in the scenario the Z translation applied to the camera is
\* 10 * 0.1 * (1/60) * (1 - a) with a = 0.6, the X and Y translations are 0
\* and the pitch and yaw are unchanged.
C6_Amended ==
    C6_Scenario =>
        /\ 10 * 60 * 10 * last.r.translation[3] = 10 * 1 * 1 * (10 - 6) * Unit
        /\ last.r.translation[1] = 0 /\ last.r.translation[2] = 0
        /\ m_Pitch = 0 /\ m_Yaw = 90 * Unit

\* The scenario has happened.
C6_Witness == C6_Scenario /\ m_Z = last.r.translation[3] /\ m_Z > 0

\* C7: an Update with deltaTime 0 leaves the five accumulators unchanged and
\* applies to the camera exactly the prior (X, Y, Z) accumulators.
C7_ZeroDeltaTime ==
    (Updated /\ last.e.DeltaTime[1] = 0) =>
        /\ Accumulators(Self) = Accumulators(last.pre)
        /\ last.r.translation = <<last.pre.m_X, last.pre.m_Y, last.pre.m_Z>>

\* An Update with deltaTime 0, with axes held, from a state where the five
\* accumulators were non-zero.
C7_Witness ==
    /\ Updated /\ last.e.DeltaTime[1] = 0
    /\ \A i \in 1..5 : Accumulators(last.pre)[i] # 0
    /\ last.e.km.MoveX # 0 /\ last.e.pad.Pitch # 0
    /\ last.r.translation # <<0, 0, 0>>

\* C8: after an Update each accumulator holds the blend the filter made of
\* its prior value and the raw target, the translation applied to the camera
\* is the new (X, Y, Z) accumulators, and the mouse-look contribution is not
\* stored: the previous-pitch and previous-yaw accumulators are the same
\* whether or not LMB was held and whatever the mouse deltas were.
C8_BlendStored ==
    Updated =>
        LET p == last.pre
            r == last.r
            dt == last.e.DeltaTime
        IN  /\ m_X = SmoothValue(p.m_X, r.rawX, dt)
            /\ m_Y = SmoothValue(p.m_Y, r.rawY, dt)
            /\ m_Z = SmoothValue(p.m_Z, r.rawZ, dt)
            /\ m_PreviousPitch = SmoothValue(p.m_PreviousPitch, r.rawPitch, dt)
            /\ m_PreviousYaw = SmoothValue(p.m_PreviousYaw, r.rawYaw, dt)
            /\ r.translation = <<m_X, m_Y, m_Z>>
            /\ r.pitch = m_PreviousPitch - r.mousePitch
            /\ r.yaw = m_PreviousYaw - r.mouseYaw
            /\ \A lmb \in BOOLEAN, dPitch \in DeltaValues, dYaw \in DeltaValues :
                   LET other == UpdateResult(p, WithMouse(last.e, lmb, dPitch, dYaw))
                   IN  Accumulators(other.self) = Accumulators(Self)

\* An Update with LMB held and the mouse moved, in which every blend differs
\* from its raw target and from its prior value.
C8_Witness ==
    /\ Updated /\ last.e.km.LMB
    /\ last.r.mousePitch # 0 /\ last.r.mouseYaw # 0
    /\ m_X # last.r.rawX /\ m_Y # last.r.rawY /\ m_Z # last.r.rawZ
    /\ m_PreviousPitch # last.r.rawPitch /\ m_PreviousYaw # last.r.rawYaw
    /\ \A i \in 1..5 : Accumulators(Self)[i] # Accumulators(last.pre)[i]

C10_RotationFromAngles ==
    m_Camera.rotation =
        XMQuaternionRotationRollPitchYaw(
            XMConvertToRadians(m_Pitch), XMConvertToRadians(m_Yaw), <<0, 1>>)

\* An Update that changed the pitch and the yaw of a camera that had already
\* been turned by an earlier Update.
C10_Witness ==
    /\ Updated /\ updates = 2
    /\ m_Pitch # last.pre.m_Pitch /\ m_Yaw # last.pre.m_Yaw
    /\ m_Pitch # 0 /\ m_Pitch # m_Yaw
    /\ last.pre.m_Pitch # 0 /\ last.pre.m_Yaw # 90 * Unit
    /\ m_Camera.rotation # last.pre.m_Camera.rotation

\* Over the rationals each blend lies between its prior value and its target.
SmoothBetweenOverRationals ==
    Updated =>
        LET Between(x, a, b) == (a <= x /\ x <= b) \/ (b <= x /\ x <= a)
        IN  /\ Between(m_X, last.pre.m_X, last.r.rawX)
            /\ Between(m_Y, last.pre.m_Y, last.r.rawY)
            /\ Between(m_Z, last.pre.m_Z, last.r.rawZ)
            /\ Between(m_PreviousPitch, last.pre.m_PreviousPitch, last.r.rawPitch)
            /\ Between(m_PreviousYaw, last.pre.m_PreviousYaw, last.r.rawYaw)

====
